---------------------------- MODULE Spec2Model ----------------------------
(***************************************************************************)
(* Model of ziti/enroll/enroll.go: ParseToken / ValidateToken /            *)
(* FetchServerCert (token validation), Enroll with its bootstrap-and-retry *)
(* loop, the three strategies enrollOTT / enrollCA / enrollCAAuto, and     *)
(* FetchCertificates.  The network, the file system, the JWT library and   *)
(* the identity loader are the environment: every outcome they can hand    *)
(* back to the code is drawn with \E.                                      *)
(***************************************************************************)
EXTENDS Integers, Sequences, FiniteSets, TLC

(***************************************************************************)
(* Bounds of the model.                                                    *)
(***************************************************************************)
\* number of ParseToken (+ Enroll) calls the caller makes one after another
MaxRuns == 2
\* largest number of certificates the server's CA bundle holds
MaxBundle == 2
\* longest identity name (in characters) the caller passes as IDName
MaxNameLen == 2

(***************************************************************************)
(* Program constants (net/http status codes the code compares against).    *)
(***************************************************************************)
StatusOK == 200
StatusConflict == 409
StatusMultipleChoices == 300

(***************************************************************************)
(* Values.                                                                 *)
(***************************************************************************)
\* Go error values.  type is the dynamic type the code's type assertions
\* look at, Err the wrapped error of a *url.Error.
NoErr == [type |-> "nil", Err |-> "", msg |-> ""]
PlainErr(m) == [type |-> "errorString", Err |-> "", msg |-> m]
UrlErr(inner) == [type |-> "*url.Error", Err |-> inner, msg |-> "Post"]
ValidationErr(m) == [type |-> "*jwt.ValidationError", Err |-> "", msg |-> m]

UnknownAuthority == "x509.UnknownAuthorityError"
ConnRefused == "net.OpError"

\* certificates: the two leaves the server can present (the one whose key
\* signed the token, and another one), the CA certificates of the server's
\* bundle, the certificate of the operator's override file; NilCert is a nil
\* *x509.Certificate
Cert(k, n) == [kind |-> k, serial |-> n]
NilCert == Cert("nil", 0)
LeafSigner == Cert("leaf", 1)
LeafOther == Cert("leaf", 2)
LeafCerts == {LeafSigner, LeafOther}
PublicKey(cert) == IF cert = LeafSigner THEN "keySigner" ELSE "keyOther"

\* a nil *config.Config, and the one Enroll allocates (lines 113-115)
NilCfg == [nil |-> TRUE, ZtAPI |-> "", Key |-> "", Cert |-> "", CA |-> ""]
NewCfg(issuer) == [nil |-> FALSE, ZtAPI |-> issuer, Key |-> "", Cert |-> "", CA |-> ""]

\* identity names are strings over a blank and a letter
Chars == {" ", "e"}
Names == UNION {[1..n -> Chars] : n \in 0..MaxNameLen}

RECURSIVE TrimLeft(_)
TrimLeft(s) == IF s # <<>> /\ Head(s) = " " THEN TrimLeft(Tail(s)) ELSE s

RECURSIVE TrimRight(_)
TrimRight(s) ==
    IF s # <<>> /\ s[Len(s)] = " " THEN TrimRight(SubSeq(s, 1, Len(s) - 1)) ELSE s

\* strings.TrimSpace
TrimSpace(s) == TrimRight(TrimLeft(s))

\* the CA bundle the server holds: n certificates, serial numbers 1..n
Bundle(n) == [i \in 1..n |-> Cert("ca", i)]
\* the certificate in the operator's override file
OverrideCert == Cert("override", 0)

\* an *x509.CertPool: nil, or the set of certificates added to it
NilPool == [nil |-> TRUE, certs |-> {}]
NewCertPool == [nil |-> FALSE, certs |-> {}]
\* AddCert that keeps only the certificate it is given
AddCert_replace(pool, c) == [pool EXCEPT !.certs = {c}]
AddCert(pool, c) == [pool EXCEPT !.certs = @ \cup {c}]

RECURSIVE AddCerts(_, _)
AddCerts(pool, cs) ==
    IF cs = <<>> THEN pool ELSE AddCerts(AddCert(pool, Head(cs)), Tail(cs))

(***************************************************************************)
(* The token strings handed to ParseToken.  A string that jwt cannot split *)
(* and decode never reaches ValidateToken.  Every well-formed token is     *)
(* signed with keySigner; claimsValid is the outcome of the standard       *)
(* claims check (exp, nbf, iat).                                           *)
(***************************************************************************)
Issuers == {"", "%zz", "https://ctrl"}
Methods == {"ott", "ottca", "ca", "updb"}
\* url.Parse
UrlParseFails(u) == u = "%zz"

TokenStrings ==
    {[wellFormed |-> FALSE, Issuer |-> "", EnrollmentMethod |-> "", claimsValid |-> FALSE]}
    \cup [wellFormed : {TRUE}, Issuer : Issuers, EnrollmentMethod : Methods,
          claimsValid : BOOLEAN]

NoToken == [wellFormed |-> FALSE, Issuer |-> "", EnrollmentMethod |-> "", claimsValid |-> FALSE]
NoClaims == [Issuer |-> "", EnrollmentMethod |-> "", SignatureCert |-> NilCert]
NoTokenRet == [claimsNil |-> TRUE, err |-> NoErr]

VARIABLES
    pc,          \* where control is: in the caller, or at a step of a call
    runs,        \* ParseToken calls the caller has made
    tokenStr,    \* the token string of the current ParseToken call
    claims,      \* the *config.EnrollmentClaims object ParseToken allocates
    key,         \* the key ValidateToken handed to the jwt parser
    tokenRet,    \* what ParseToken returned: (claims pointer or nil, err)
    leafFetches, \* FetchServerCert calls made by the current ParseToken call
    enFlags,     \* the EnrollmentFlags of the current Enroll call
    cfg,         \* the *config.Config Enroll builds
    caPool,      \* Enroll's caPool
    allowedCerts,        \* Enroll's allowedCerts
    enrollmentComplete,  \* Enroll's loop flag
    shouldFetchCerts,    \* Enroll's bootstrap flag
    enrollErr,   \* the error of the last strategy call
    ret,         \* what Enroll returned: (cfg, err)
    trace,       \* the strategy calls and CA-bundle fetches of this Enroll call
    conns,       \* the operations that have sent a request over a connection
                 \* with certificate verification disabled, so far
    openResp     \* responses received so far whose Body is not closed

tokenVars == <<tokenStr, claims, key, tokenRet, leafFetches>>
enrollVars == <<enFlags, cfg, caPool, allowedCerts, enrollmentComplete,
                shouldFetchCerts, enrollErr, ret, trace>>
vars == <<pc, runs, tokenVars, enrollVars, conns, openResp>>

\* tls.Config of FetchServerCert (lines 403-405)
FetchServerCertTLS == [InsecureSkipVerify |-> TRUE, RootCAs |-> NilPool, ClientCert |-> FALSE]

\* ValidateIssuer without the test for an empty issuer
ValidateIssuer_noEmptyCheck(issuer) ==
    IF UrlParseFails(issuer)
    THEN PlainErr("could not validate token, issuer is not a valid url")
    ELSE NoErr

\* the checks ValidateToken makes on the issuer before it contacts it
\* (lines 89-97)
ValidateIssuer(issuer) ==
    IF issuer = ""
    THEN PlainErr("could not validate token, issues is empty")
    ELSE IF UrlParseFails(issuer)
         THEN PlainErr("could not validate token, issuer is not a valid url")
         ELSE NoErr

\* ParseTokenReturn handing the claims back whatever the error
ParseTokenReturn_keepClaims(err) == [claimsNil |-> FALSE, err |-> err]

\* what ParseToken returns for the error of parser.ParseWithClaims
\* (lines 67-71)
ParseTokenReturn(err) ==
    IF err # NoErr
    THEN [claimsNil |-> TRUE, err |-> err]
    ELSE [claimsNil |-> FALSE, err |-> NoErr]

\* jwt wraps the error of the key function
KeyFuncErr(e) == ValidationErr(e.msg)

(***************************************************************************)
(* The file system and the inputs of Enroll.                               *)
(***************************************************************************)
\* os.Stat
Stat(path) ==
    CASE path = "key.pem" -> "file"
      [] path = "keydir" -> "dir"
      [] OTHER -> "missing"

\* strings.TrimSpace(s) != "" on a path
Blank(path) == path \in {"", " "}

\* filepath.Abs, when the working directory can be read
Abs(path) == "/cwd/" \o path

\* the PEM text of a certificate, and pem.Encode of a list of them
Pem(c) == "[" \o c.kind \o ToString(c.serial) \o "]"

RECURSIVE PemBundle(_)
PemBundle(cs) == IF cs = <<>> THEN "" ELSE Pem(Head(cs)) \o PemBundle(Tail(cs))

\* ioutil.ReadFile, its error dropped (line 149)
ReadFile(path) ==
    CASE path = "override.pem" -> Pem(OverrideCert)
      [] OTHER -> ""

\* nfpem.PemToX509: the certificates of the PEM blocks of a text
PemToX509(text) == IF text = Pem(OverrideCert) THEN <<OverrideCert>> ELSE <<>>

KeyFiles == {"", "key.pem", "keydir", "pkcs11:slot"}
CertFiles == {"", "cert.pem"}
CAFiles == {" ", "missing.pem", "override.pem"}

NoFlags == [KeyFile |-> "", CertFile |-> "", IDName |-> <<>>, AdditionalCAs |-> ""]

\* lines 117-141: the key reference of the configuration.  absOk: whether
\* filepath.Abs succeeds; genOk: whether ecdsa.GenerateKey succeeds.  A
\* failed generateKey leaves a nil *ecdsa.PrivateKey in key, which
\* x509.MarshalECPrivateKey dereferences at line 135.
PrepareKey(KeyFile, absOk, genOk) ==
    IF ~Blank(KeyFile)
    THEN IF Stat(KeyFile) # "missing"
         THEN IF Stat(KeyFile) = "dir"
              THEN [to |-> "return", Key |-> "", err |-> PlainErr("specified key is a directory")]
              ELSE IF ~absOk
                   THEN [to |-> "return", Key |-> "", err |-> PlainErr("getwd")]
                   ELSE [to |-> "go", Key |-> "file://" \o Abs(KeyFile), err |-> NoErr]
         ELSE [to |-> "go", Key |-> KeyFile, err |-> NoErr]
    ELSE IF genOk
         THEN [to |-> "go", Key |-> "pem:" \o "EC PRIVATE KEY", err |-> NoErr]
         ELSE [to |-> "panic", Key |-> "", err |-> NoErr]

\* OverrideCerts that never gets the certificates of the file
OverrideCerts_unread(AdditionalCAs) == <<>>

\* lines 147-154: the certificates of the override file
OverrideCerts(AdditionalCAs) ==
    IF ~Blank(AdditionalCAs) THEN PemToX509(ReadFile(AdditionalCAs)) ELSE <<>>

\* lines 156-159: the certificate reference (the error of filepath.Abs is
\* dropped, its path is then empty)
CertRef(CertFile, absOk) ==
    IF CertFile # "" THEN "file://" \o (IF absOk THEN Abs(CertFile) ELSE "") ELSE ""

(***************************************************************************)
(* The three strategies.  An outcome o is what the environment does to one *)
(* strategy call: pre is the local preparation (identity.LoadKey /         *)
(* LoadIdentity, x509.CreateCertificateRequest), post what client.Post     *)
(* gives (a *url.Error wrapping an unknown-authority or another transport  *)
(* error, or a response), status / readOk / shape the response: its status *)
(* code, whether ioutil.ReadAll reads its body, and what the body is.      *)
(***************************************************************************)
\* the statuses the server answers with: 200, 409, and a rejection that is
\* neither
Rejections == {400}
Statuses == {StatusOK, StatusConflict} \cup Rejections
\* a body that is not JSON; {"error":{"code":..,"message":..}}; JSON without
\* error.message; JSON with error.message and without error.code
Shapes == {"notJSON", "envelope", "noMessage", "noCode"}

Outcome(pre, post, status, readOk, shape) ==
    [pre |-> pre, post |-> post, status |-> status, readOk |-> readOk, shape |-> shape]

Responses ==
    {Outcome("ok", "resp", st, rd, sh) : st \in Statuses, rd \in BOOLEAN, sh \in Shapes}
TransportErrors ==
    {Outcome("ok", e, 0, FALSE, "notJSON") : e \in {UnknownAuthority, ConnRefused}}
LoadFailure == Outcome("loadFail", "none", 0, FALSE, "notJSON")
CsrFailure == Outcome("csrFail", "none", 0, FALSE, "notJSON")

OTTOutcomes == {LoadFailure, CsrFailure} \cup TransportErrors \cup Responses
CAOutcomes == {LoadFailure} \cup TransportErrors \cup Responses

\* what a strategy call leaves: its error, cfg.ID.Cert, and whether it
\* panicked (a failed type assertion on a nil interface)
Result(err, cert, panicked) == [err |-> err, Cert |-> cert, panicked |-> panicked]

AlreadyEnrolled == PlainErr("the provided identity has already been enrolled")
IssuedCert == "[issued]"

\* the roots crypto/tls verifies against: the host's root set when RootCAs
\* is nil (what useSystemCasIfEmpty returns for an empty pool), the pool's
\* certificates otherwise
SystemRoots == {Cert("system", 1)}
Trusted(tls) == IF tls.RootCAs.nil THEN SystemRoots ELSE tls.RootCAs.certs

\* lines 229-238
useSystemCasIfEmpty(pool) == IF Cardinality(pool.certs) < 1 THEN NilPool ELSE pool

\* the tls.Config of the strategies' clients (lines 263-265, 320-323, 355-358)
enrollOTTTLS(pool) ==
    [InsecureSkipVerify |-> FALSE, RootCAs |-> useSystemCasIfEmpty(pool), ClientCert |-> FALSE]
enrollCATLS(pool) ==
    [InsecureSkipVerify |-> FALSE, RootCAs |-> useSystemCasIfEmpty(pool), ClientCert |-> TRUE]

\* enrollOTTResponse without the early return on 200
enrollOTTResponse_noOK(cert, o) ==
    IF ~o.readOk
    THEN Result(PlainErr("enroll error: could not read body"), cert, FALSE)
    ELSE IF o.shape = "notJSON"
    THEN Result(PlainErr("enroll error: could not parse body"), cert, FALSE)
    ELSE IF o.shape = "noMessage"
    THEN Result(PlainErr("enroll error: unrecognized response"), cert, FALSE)
    ELSE IF o.shape = "noCode"
    THEN Result(NoErr, cert, TRUE)
    ELSE Result(PlainErr("enroll error: code, message, cause"), cert, FALSE)

\* lines 273-307: enrollOTT once client.Post has returned a response
enrollOTTResponse(cert, o) ==
    IF ~o.readOk
    THEN Result(PlainErr("enroll error: could not read body"), cert, FALSE)
    ELSE IF o.status = StatusOK
    THEN Result(NoErr, "pem:" \o IssuedCert, FALSE)
    ELSE IF o.shape = "notJSON"
    THEN Result(PlainErr("enroll error: could not parse body"), cert, FALSE)
    ELSE IF o.shape = "noMessage"
    THEN Result(PlainErr("enroll error: unrecognized response"), cert, FALSE)
    ELSE IF o.shape = "noCode"
    THEN Result(NoErr, cert, TRUE)
    ELSE Result(PlainErr("enroll error: code, message, cause"), cert, FALSE)

\* lines 240-308
enrollOTT(cert, o) ==
    IF o.pre = "loadFail"
    THEN Result(PlainErr("failed to load private key"), cert, FALSE)
    ELSE IF o.pre = "csrFail"
    THEN Result(PlainErr("x509: certificate request"), cert, FALSE)
    ELSE IF o.post # "resp"
    THEN Result(UrlErr(o.post), cert, FALSE)
    ELSE enrollOTTResponse(cert, o)

\* enrollCAResponse without the test for 409
enrollCAResponse_noConflict(status) ==
    IF status # StatusOK THEN PlainErr("enroll error: status") ELSE NoErr

\* lines 331-338: enrollCA once client.Post has returned a response
enrollCAResponse(status) ==
    IF status # StatusOK
    THEN IF status = StatusConflict
         THEN AlreadyEnrolled
         ELSE PlainErr("enroll error: status")
    ELSE NoErr

\* lines 310-340
enrollCA(cert, o) ==
    IF o.pre = "loadFail"
    THEN Result(PlainErr("identity: load failed"), cert, FALSE)
    ELSE IF o.post # "resp"
    THEN Result(UrlErr(o.post), cert, FALSE)
    ELSE Result(enrollCAResponse(o.status), cert, FALSE)

RECURSIVE Join(_)
Join(chars) == IF chars = <<>> THEN "" ELSE Head(chars) \o Join(Tail(chars))

\* json.Marshal(autoEnrollInput{Name: name})
MarshalAutoEnrollInput(name) == "{\"name\":\"" \o Join(name) \o "\"}"

\* postBodyCAAuto marshalling the name as it was passed
postBodyCAAuto_untrimmed(IDName) ==
    IF TrimSpace(IDName) # <<>> THEN MarshalAutoEnrollInput(IDName) ELSE ""

\* lines 362-373: the body enrollCAAuto posts
postBodyCAAuto(IDName) ==
    IF TrimSpace(IDName) # <<>> THEN MarshalAutoEnrollInput(TrimSpace(IDName)) ELSE ""

\* lines 380-398: enrollCAAuto once client.Post has returned a response
enrollCAAutoResponse(cert, o) ==
    IF o.status # StatusOK
    THEN IF o.status = StatusConflict
         THEN Result(AlreadyEnrolled, cert, FALSE)
         ELSE IF ~o.readOk
         THEN Result(PlainErr("enroll error: status"), cert, FALSE)
         ELSE IF o.shape = "notJSON"
         THEN Result(PlainErr("enroll error: status: body"), cert, FALSE)
         ELSE IF o.shape = "envelope"
         THEN Result(PlainErr("enroll error: status: code: message"), cert, FALSE)
         ELSE Result(NoErr, cert, TRUE)
    ELSE Result(NoErr, cert, FALSE)

\* lines 346-400
enrollCAAuto(cert, o) ==
    IF o.pre = "loadFail"
    THEN Result(PlainErr("identity: load failed"), cert, FALSE)
    ELSE IF o.post # "resp"
    THEN Result(UrlErr(o.post), cert, FALSE)
    ELSE enrollCAAutoResponse(cert, o)

\* one entry of trace
NoTLS == [InsecureSkipVerify |-> FALSE, RootCAs |-> NilPool, ClientCert |-> FALSE]
Attempt(method, o, tls, contentType, body, r) ==
    [op |-> "attempt", method |-> method, requested |-> o.pre = "ok",
     tls |-> IF o.pre = "ok" THEN tls ELSE NoTLS,
     contentType |-> IF o.pre = "ok" THEN contentType ELSE "",
     body |-> IF o.pre = "ok" THEN body ELSE "",
     status |-> o.status, readOk |-> o.readOk,
     err |-> r.err, panicked |-> r.panicked, certs |-> <<>>]
\* (for a fetch, body is what the response body decodes as)
Fetch(tls, o, certs) ==
    [op |-> "fetch", method |-> "", requested |-> TRUE, tls |-> tls,
     contentType |-> "", body |-> IF o.post = "resp" /\ o.readOk THEN o.decode ELSE "",
     status |-> o.status, readOk |-> o.readOk,
     err |-> NoErr, panicked |-> FALSE, certs |-> certs]

(***************************************************************************)
(* Token validation: ParseToken, ValidateToken, FetchServerCert.           *)
(***************************************************************************)
NoCfgRet == [cfg |-> NilCfg, err |-> NoErr]

EnrollReset ==
    /\ enFlags' = NoFlags
    /\ cfg' = NilCfg
    /\ caPool' = NewCertPool
    /\ allowedCerts' = <<>>
    /\ enrollmentComplete' = FALSE
    /\ shouldFetchCerts' = TRUE
    /\ enrollErr' = NoErr
    /\ ret' = NoCfgRet
    /\ trace' = <<>>

Init ==
    /\ pc = "idle"
    /\ runs = 0
    /\ tokenStr = NoToken
    /\ claims = NoClaims
    /\ key = ""
    /\ tokenRet = NoTokenRet
    /\ leafFetches = 0
    /\ enFlags = NoFlags
    /\ cfg = NilCfg
    /\ caPool = NewCertPool
    /\ allowedCerts = <<>>
    /\ enrollmentComplete = FALSE
    /\ shouldFetchCerts = TRUE
    /\ enrollErr = NoErr
    /\ ret = NoCfgRet
    /\ trace = <<>>
    /\ conns = {}
    /\ openResp = 0

\* lines 59-65: the caller calls ParseToken; jwt splits and decodes the
\* string into the claims object and, when that works, calls ValidateToken
ParseToken(t) ==
    /\ pc \in {"idle", "parsed", "returned"}
    /\ runs < MaxRuns
    /\ runs' = runs + 1
    /\ tokenStr' = t
    /\ key' = ""
    /\ leafFetches' = 0
    /\ IF t.wellFormed
       THEN /\ claims' = [Issuer |-> t.Issuer, EnrollmentMethod |-> t.EnrollmentMethod,
                          SignatureCert |-> NilCert]
            /\ tokenRet' = NoTokenRet
            /\ pc' = "ValidateToken"
       ELSE /\ claims' = NoClaims
            /\ tokenRet' = ParseTokenReturn(ValidationErr("token is malformed"))
            /\ pc' = "parsed"
    /\ EnrollReset
    /\ UNCHANGED <<conns, openResp>>

\* lines 74-97
ValidateToken ==
    /\ pc = "ValidateToken"
    /\ IF ValidateIssuer(claims.Issuer) # NoErr
       THEN /\ tokenRet' = ParseTokenReturn(KeyFuncErr(ValidateIssuer(claims.Issuer)))
            /\ pc' = "parsed"
       ELSE /\ tokenRet' = tokenRet
            /\ pc' = "FetchServerCert"
    /\ UNCHANGED <<runs, tokenStr, claims, key, leafFetches, enrollVars, conns, openResp>>

\* lines 402-419: what FetchServerCert returns when client.Get is refused,
\* when the response carries no peer certificate, and when the peer
\* presents a leaf
LeafOutcomes == {"refused", "noPeer", "leafSigner", "leafOther"}
FetchServerCertResult(o) ==
    CASE o = "refused" ->
           [cert |-> NilCert, err |-> PlainErr("could not contact remote server")]
      [] o = "noPeer" ->
           [cert |-> NilCert, err |-> PlainErr("peer certificate information is missing")]
      [] o = "leafSigner" -> [cert |-> LeafSigner, err |-> NoErr]
      [] OTHER -> [cert |-> LeafOther, err |-> NoErr]

\* conns once operation op has sent a request with the configuration tls
Conn(op, tls) == IF tls.InsecureSkipVerify THEN conns \cup {op} ELSE conns

\* lines 99-107 with the call of FetchServerCert
FetchServerCert(o) ==
    /\ pc = "FetchServerCert"
    /\ LET r == FetchServerCertResult(o)
       IN /\ claims' = [claims EXCEPT !.SignatureCert = r.cert]
          /\ IF r.err # NoErr \/ r.cert = NilCert
             THEN /\ tokenRet' = ParseTokenReturn(
                                    KeyFuncErr(PlainErr("could not retrieve token URL certificate")))
                  /\ key' = key
                  /\ pc' = "parsed"
             ELSE /\ tokenRet' = tokenRet
                  /\ key' = PublicKey(r.cert)
                  /\ pc' = "Verify"
    /\ leafFetches' = leafFetches + 1
    /\ conns' = Conn("FetchServerCert", FetchServerCertTLS)
    /\ openResp' = IF o = "refused" THEN openResp ELSE openResp + 1
    /\ UNCHANGED <<runs, tokenStr, enrollVars>>

\* lines 65-71: jwt checks the standard claims and the signature against
\* the key ValidateToken returned, and ParseToken returns
VerifyErr(claimsValid, k) ==
    IF ~claimsValid
    THEN ValidationErr("token is expired")
    ELSE IF k # "keySigner"
         THEN ValidationErr("crypto/ecdsa: verification error")
         ELSE NoErr

Verify ==
    /\ pc = "Verify"
    /\ tokenRet' = ParseTokenReturn(VerifyErr(tokenStr.claimsValid, key))
    /\ pc' = "parsed"
    /\ UNCHANGED <<runs, tokenStr, claims, key, leafFetches, enrollVars, conns, openResp>>

(***************************************************************************)
(* Enroll.                                                                 *)
(***************************************************************************)
\* the flags a caller passes with a token of the given method (IDName is
\* read by enrollCAAuto alone)
EnrollmentFlags(method) ==
    [KeyFile : KeyFiles, CertFile : CertFiles,
     IDName : IF method = "ca" THEN Names ELSE {<<>>}, AdditionalCAs : CAFiles]

\* the (cfg, err) pairs Enroll returns: before the loop (lines 122, 125,
\* 139), from the loop (line 207), and after it (line 220)
EnrollKeyFailure(err) == [cfg |-> NilCfg, err |-> err]
EnrollFailure(c, err) == [cfg |-> c, err |-> err]
EnrollSuccess(c) == [cfg |-> c, err |-> NoErr]

\* lines 110-164: the caller passes what ParseToken returned as
\* enFlags.Token; a nil Token is dereferenced at line 114
Enroll(f, absOk, genOk) ==
    /\ pc = "parsed"
    /\ enFlags' = f
    /\ IF tokenRet.claimsNil
       THEN /\ pc' = "panic"
            /\ UNCHANGED <<cfg, caPool, allowedCerts, ret>>
       ELSE LET k == PrepareKey(f.KeyFile, absOk, genOk)
            IN CASE k.to = "return" ->
                      /\ ret' = EnrollKeyFailure(k.err)
                      /\ pc' = "returned"
                      /\ UNCHANGED <<cfg, caPool, allowedCerts>>
                 [] k.to = "panic" ->
                      /\ pc' = "panic"
                      /\ UNCHANGED <<cfg, caPool, allowedCerts, ret>>
                 [] OTHER ->
                      /\ cfg' = [NewCfg(claims.Issuer) EXCEPT
                                   !.Key = k.Key, !.Cert = CertRef(f.CertFile, absOk)]
                      /\ allowedCerts' = OverrideCerts(f.AdditionalCAs)
                      /\ caPool' = AddCerts(NewCertPool, OverrideCerts(f.AdditionalCAs))
                      /\ ret' = ret
                      /\ pc' = "attempt"
    /\ enrollmentComplete' = FALSE
    /\ shouldFetchCerts' = TRUE
    /\ enrollErr' = NoErr
    /\ trace' = <<>>
    /\ UNCHANGED <<runs, tokenVars, conns, openResp>>

\* the bookkeeping of one strategy call: the request it made, the response
\* it was handed (none of the strategies closes resp.Body)
Called(method, o, tls, contentType, body, r) ==
    /\ cfg' = [cfg EXCEPT !.Cert = r.Cert]
    /\ enrollErr' = r.err
    /\ trace' = Append(trace, Attempt(method, o, tls, contentType, body, r))
    /\ conns' = IF o.pre = "ok" THEN Conn(method, tls) ELSE conns
    /\ openResp' = IF o.post = "resp" THEN openResp + 1 ELSE openResp
    /\ pc' = IF r.panicked THEN "panic" ELSE "classify"
    /\ UNCHANGED <<runs, tokenVars, enFlags, caPool, allowedCerts,
                   enrollmentComplete, shouldFetchCerts, ret>>

\* lines 168-171
DispatchOTT(o) ==
    /\ pc = "attempt"
    /\ ~enrollmentComplete
    /\ claims.EnrollmentMethod = "ott"
    /\ Called("ott", o, enrollOTTTLS(caPool), "text/plain", "CERTIFICATE REQUEST",
              enrollOTT(cfg.Cert, o))

\* lines 168-169, 172-173
DispatchCA(o) ==
    /\ pc = "attempt"
    /\ ~enrollmentComplete
    /\ claims.EnrollmentMethod = "ottca"
    /\ Called("ottca", o, enrollCATLS(caPool), "text/plain", "", enrollCA(cfg.Cert, o))

\* lines 168-169, 174-175
DispatchCAAuto(o) ==
    /\ pc = "attempt"
    /\ ~enrollmentComplete
    /\ claims.EnrollmentMethod = "ca"
    /\ Called("ca", o, enrollCATLS(caPool), "application/json",
              postBodyCAAuto(enFlags.IDName), enrollCAAuto(cfg.Cert, o))

\* a default case that falls back to the token-based strategy
DispatchDefault_asOTT ==
    /\ pc = "attempt"
    /\ ~enrollmentComplete
    /\ claims.EnrollmentMethod \notin {"ott", "ottca", "ca"}
    /\ \E o \in OTTOutcomes :
          Called("ott", o, enrollOTTTLS(caPool), "text/plain", "CERTIFICATE REQUEST",
                 enrollOTT(cfg.Cert, o))

\* lines 168-169, 176-178
DispatchDefault ==
    /\ pc = "attempt"
    /\ ~enrollmentComplete
    /\ claims.EnrollmentMethod \notin {"ott", "ottca", "ca"}
    /\ enrollErr' = PlainErr("enrollment method is not supported")
    /\ enrollmentComplete' = TRUE
    /\ pc' = "classify"
    /\ UNCHANGED <<runs, tokenVars, enFlags, cfg, caPool, allowedCerts,
                   shouldFetchCerts, ret, trace, conns, openResp>>

\* ShouldBootstrap that does not look at shouldFetchCerts
ShouldBootstrap_everyTime(err, shouldFetch) ==
    /\ err.type = "*url.Error"
    /\ err.Err = UnknownAuthority

\* ShouldBootstrap that does not look at the error the *url.Error wraps
ShouldBootstrap_anyUrlError(err, shouldFetch) ==
    /\ err.type = "*url.Error"
    /\ shouldFetch

\* lines 185-188: the failure is a *url.Error wrapping an
\* x509.UnknownAuthorityError and the bundle was not fetched yet
ShouldBootstrap(err, shouldFetch) ==
    /\ err.type = "*url.Error"
    /\ err.Err = UnknownAuthority
    /\ shouldFetch

\* lines 181-208, without the fetch itself
Classify ==
    /\ pc = "classify"
    /\ IF enrollErr = NoErr
       THEN /\ enrollmentComplete' = TRUE
            /\ pc' = "finish"
            /\ UNCHANGED <<shouldFetchCerts, ret>>
       ELSE IF ShouldBootstrap(enrollErr, shouldFetchCerts)
            THEN /\ shouldFetchCerts' = FALSE
                 /\ pc' = "fetch"
                 /\ UNCHANGED <<enrollmentComplete, ret>>
            ELSE /\ ret' = EnrollFailure(cfg, enrollErr)
                 /\ pc' = "returned"
                 /\ UNCHANGED <<enrollmentComplete, shouldFetchCerts>>
    /\ UNCHANGED <<runs, tokenVars, enFlags, cfg, caPool, allowedCerts, enrollErr,
                   trace, conns, openResp>>

(***************************************************************************)
(* FetchCertificates and the bootstrap step of Enroll.                     *)
(***************************************************************************)
\* FetchCertificates' client with verification switched off
FetchCertificatesTLS_insecure(rootCaPool) ==
    [InsecureSkipVerify |-> TRUE, RootCAs |-> rootCaPool, ClientCert |-> FALSE]

\* FetchCertificates' client left with the default roots
FetchCertificatesTLS_systemPool(rootCaPool) ==
    [InsecureSkipVerify |-> FALSE, RootCAs |-> NilPool, ClientCert |-> FALSE]

\* the tls.Config of FetchCertificates (lines 424-426)
FetchCertificatesTLS(rootCaPool) ==
    [InsecureSkipVerify |-> FALSE, RootCAs |-> rootCaPool, ClientCert |-> FALSE]

\* what the CA-store request gives: a transport error, or a response with
\* its status, whether its body can be read, whether the body is base64 of
\* a PKCS7 structure, and the n certificates of that structure
FetchOutcome(post, status, readOk, decode, n) ==
    [post |-> post, status |-> status, readOk |-> readOk, decode |-> decode, n |-> n]

FetchOutcomes ==
    {FetchOutcome("err", 0, FALSE, "ok", 0)}
    \cup {FetchOutcome("resp", st, FALSE, "ok", 0) : st \in {StatusOK} \cup Rejections}
    \cup {FetchOutcome("resp", st, TRUE, "ok", n) : st \in Rejections, n \in 0..MaxBundle}
    \cup {FetchOutcome("resp", StatusOK, TRUE, d, 0) : d \in {"badBase64", "badPkcs7"}}
    \cup {FetchOutcome("resp", StatusOK, TRUE, "ok", n) : n \in 0..MaxBundle}

\* FetchCertificatesResult without the test of the status
FetchCertificatesResult_anyStatus(o) ==
    IF o.post # "resp"
    THEN <<>>
    ELSE IF ~o.readOk
    THEN <<>>
    ELSE IF o.decode # "ok" THEN <<>> ELSE Bundle(o.n)

\* lines 436-469: the certificates FetchCertificates returns.  A failed
\* base64 decode leaves a non-nil, truncated slice that pkcs7.Parse rejects.
FetchCertificatesResult(o) ==
    IF o.post # "resp"
    THEN <<>>
    ELSE IF ~o.readOk
    THEN <<>>
    ELSE IF o.status >= StatusOK /\ o.status < StatusMultipleChoices
    THEN IF o.decode # "ok" THEN <<>> ELSE Bundle(o.n)
    ELSE <<>>

\* lines 189-202 with the call of FetchCertificates (lines 423-470):
\* x509.CertPool.AddCert panics on a nil certificate and FetchCertificates
\* panics on a base url that does not parse; the response body is closed by
\* the deferred Close before FetchCertificates returns
FetchCertificates(o) ==
    /\ pc = "fetch"
    /\ IF claims.SignatureCert = NilCert \/ UrlParseFails(cfg.ZtAPI)
       THEN /\ pc' = "panic"
            /\ UNCHANGED <<allowedCerts, caPool, trace, conns>>
       ELSE LET rootCaPool == AddCert(NewCertPool, claims.SignatureCert)
                certs == FetchCertificatesResult(o)
            IN /\ allowedCerts' = allowedCerts \o certs
               /\ caPool' = AddCerts(caPool, certs)
               /\ trace' = Append(trace, Fetch(FetchCertificatesTLS(rootCaPool), o, certs))
               /\ conns' = Conn("FetchCertificates", FetchCertificatesTLS(rootCaPool))
               /\ pc' = IF enrollmentComplete THEN "finish" ELSE "attempt"
    /\ UNCHANGED <<runs, tokenVars, enFlags, cfg, enrollmentComplete, shouldFetchCerts,
                   enrollErr, ret, openResp>>

\* nfx509.MarshalToPem into a bytes.Buffer: the PEM blocks of the
\* certificates, one after the other; writing to the buffer cannot fail
MarshalToPem(certs) == [buf |-> PemBundle(certs), merr |-> NoErr]

\* lines 211-220
EnrollFinish ==
    /\ pc = "finish"
    /\ LET m == MarshalToPem(allowedCerts)
           final == IF Len(allowedCerts) > 0
                    THEN [cfg EXCEPT !.CA = "pem:" \o m.buf]
                    ELSE cfg
       IN /\ cfg' = final
          /\ ret' = IF Len(allowedCerts) > 0 /\ m.merr # NoErr
                    THEN EnrollKeyFailure(m.merr)
                    ELSE EnrollSuccess(final)
    /\ pc' = "returned"
    /\ UNCHANGED <<runs, tokenVars, enFlags, caPool, allowedCerts, enrollmentComplete,
                   shouldFetchCerts, enrollErr, trace, conns, openResp>>

\* the flags the caller passes with the claims ParseToken handed back
CallerFlags == EnrollmentFlags(claims.EnrollmentMethod)

Next ==
    \/ \E t \in TokenStrings : ParseToken(t)
    \/ ValidateToken
    \/ \E o \in LeafOutcomes : FetchServerCert(o)
    \/ Verify
    \/ \E f \in CallerFlags, absOk \in BOOLEAN, genOk \in BOOLEAN : Enroll(f, absOk, genOk)
    \/ \E o \in OTTOutcomes : DispatchOTT(o)
    \/ \E o \in CAOutcomes : DispatchCA(o)
    \/ \E o \in CAOutcomes : DispatchCAAuto(o)
    \/ DispatchDefault
    \/ Classify
    \/ \E o \in FetchOutcomes : FetchCertificates(o)
    \/ EnrollFinish

Spec == Init /\ [][Next]_vars

(***************************************************************************)
(* Properties.                                                             *)
(***************************************************************************)
IsUnknownAuthority(e) == e.type = "*url.Error" /\ e.Err = UnknownAuthority
IsAttempt(i) == trace[i].op = "attempt"
IsFetch(i) == trace[i].op = "fetch"
Fetches == Cardinality({i \in 1..Len(trace) : IsFetch(i)})
Attempts == Cardinality({i \in 1..Len(trace) : IsAttempt(i)})
\* control is back in the caller
AtCaller == pc \in {"idle", "parsed", "returned"}
CAMethods == {"ottca", "ca"}

\* C1: in an Enroll run there is at most one CA-bundle fetch; a fetch comes
\* right after a strategy call that failed with unknown-authority; once the
\* run has returned, a first call that failed with unknown-authority was
\* followed by exactly one fetch and then exactly one more strategy call,
\* and when that call failed with unknown-authority too, its error is what
\* Enroll returned.
C1_BootstrapOnce ==
    /\ Fetches <= 1
    /\ Attempts <= 2
    /\ \A i \in 1..Len(trace) :
          IsFetch(i) => i > 1 /\ IsAttempt(i - 1) /\ IsUnknownAuthority(trace[i - 1].err)
    /\ (pc = "returned" /\ trace # <<>> /\ IsUnknownAuthority(trace[1].err))
          => /\ Len(trace) = 3
             /\ IsFetch(2)
             /\ IsAttempt(3)
             /\ IsUnknownAuthority(trace[3].err) => ret.err = trace[3].err

\* C1 witness: a run returned after a second unknown-authority failure
C1_Witness ==
    /\ pc = "returned"
    /\ Len(trace) = 3
    /\ IsUnknownAuthority(trace[1].err)
    /\ IsUnknownAuthority(trace[3].err)
    /\ ret.err = UrlErr(UnknownAuthority)

\* C2: a strategy call that failed with anything but unknown-authority is
\* the last entry of the run (no fetch and no further call follows it, on
\* the first attempt and on the retry alike), and its error is the one
\* Enroll returns.
C2_OtherFailuresEndTheRun ==
    \A i \in 1..Len(trace) :
        (IsAttempt(i) /\ ~trace[i].panicked /\ trace[i].err # NoErr
            /\ ~IsUnknownAuthority(trace[i].err))
        => /\ i = Len(trace)
           /\ pc \in {"classify", "returned"}
           /\ pc = "returned" => ret.err = trace[i].err

\* C2 witness: the retry failed with a transport error that is not
\* unknown-authority, and the run returned it
C2_Witness ==
    /\ pc = "returned"
    /\ Len(trace) = 3
    /\ trace[3].err = UrlErr(ConnRefused)
    /\ ret.err = UrlErr(ConnRefused)

C4_EmptyIssuerNoNetwork ==
    (tokenStr.wellFormed /\ claims.Issuer = "")
    => /\ leafFetches = 0
       /\ pc \notin {"FetchServerCert", "Verify"}
       /\ pc # "ValidateToken"
            => /\ tokenRet.claimsNil
               /\ tokenRet.err = KeyFuncErr(PlainErr("could not validate token, issues is empty"))

\* C4 witness: ParseToken returned for a token with an empty issuer
C4_Witness ==
    /\ pc = "parsed"
    /\ tokenStr.wellFormed
    /\ claims.Issuer = ""
    /\ tokenRet.err # NoErr

\* the current ParseToken call contacted the issuer and validation failed:
\* no leaf certificate came back, or the token's signature does not verify
\* against the key of the one that did
ValidationFailed ==
    /\ leafFetches = 1
    /\ pc # "Verify"
    /\ \/ claims.SignatureCert = NilCert
       \/ PublicKey(claims.SignatureCert) # "keySigner"

\* C5: when validation fails, ParseToken returns an error and nil claims,
\* and no strategy is called for that token.
C5_FailedValidationNoStrategy ==
    ValidationFailed
    => /\ tokenRet.claimsNil
       /\ tokenRet.err # NoErr
       /\ trace = <<>>
       /\ pc \in {"parsed", "panic"}

\* C5 witness: the signature did not verify, the caller passed the nil
\* claims to Enroll all the same
C5_Witness ==
    /\ ValidationFailed
    /\ key = "keyOther"
    /\ pc = "panic"

\* C6: what Enroll returns is a configuration and no error, or an error
\* and no configuration.
C6_ConfigOrError ==
    pc = "returned"
    => \/ ret.err = NoErr /\ ~ret.cfg.nil
       \/ ret.err # NoErr /\ ret.cfg.nil

\* C7: whenever control is back in the caller, every response the engine
\* was handed has been closed.
C7_NoResponseLeftOpen == AtCaller => openResp = 0

\* the last strategy call of the run, when the run made one
LastAttempt == trace[Len(trace)]
AnsweredLast(status) ==
    /\ trace # <<>>
    /\ IsAttempt(Len(trace))
    /\ LastAttempt.status = status

\* C8: a call of enrollCA or enrollCAAuto fails with the already-enrolled
\* error exactly when the server answered 409; that call is the last entry
\* of the run (no fetch, no retry after it) and Enroll returns that error.
C8_AlreadyEnrolledIff409 ==
    \A i \in 1..Len(trace) :
        (IsAttempt(i) /\ trace[i].method \in CAMethods)
        => /\ trace[i].err = AlreadyEnrolled <=> trace[i].status = StatusConflict
           /\ trace[i].status = StatusConflict
                => /\ i = Len(trace)
                   /\ pc \in {"classify", "returned"}
                   /\ pc = "returned" => ret.err = AlreadyEnrolled

\* C8 witness: enrollCAAuto was answered 409 on the retry and Enroll
\* returned the already-enrolled error
C8_Witness ==
    /\ pc = "returned"
    /\ claims.EnrollmentMethod = "ca"
    /\ Len(trace) = 3
    /\ AnsweredLast(StatusConflict)
    /\ ret.err = AlreadyEnrolled

\* C9 as stated: when the last strategy call was answered 200, Enroll
\* returns a configuration and no error.
C9_Original ==
    (pc = "returned" /\ AnsweredLast(StatusOK))
    => ret.err = NoErr /\ ~ret.cfg.nil

\* C9 amended: when the last strategy call was answered 200 and, for the
\* token-based method, the body of that response was read, the call leaves
\* no error and Enroll returns a configuration and no error, whatever the
\* earlier attempt of the run failed with.
C9_OkMeansSuccess ==
    (AnsweredLast(StatusOK) /\ (LastAttempt.method = "ott" => LastAttempt.readOk))
    => /\ LastAttempt.err = NoErr
       /\ pc \in {"classify", "finish", "returned"}
       /\ pc # "classify" => enrollmentComplete
       /\ pc = "returned" => ret.err = NoErr /\ ~ret.cfg.nil

\* C9 witness: the first call failed with unknown-authority, the retry was
\* answered 200, Enroll returned success
C9_Witness ==
    /\ pc = "returned"
    /\ Len(trace) = 3
    /\ IsUnknownAuthority(trace[1].err)
    /\ AnsweredLast(StatusOK)
    /\ claims.EnrollmentMethod = "ott"
    /\ ret.err = NoErr

\* the body enrollCAAuto is to post for a name
NameJson(name) == "{\"name\":\"" \o Join(name) \o "\"}"

\* C10 as stated: for the CA-based methods a 200 gives success with no
\* certificate field in the configuration, and enrollCAAuto posts exactly
\* the JSON object with the name when one was supplied.
C10_Original ==
    (pc = "returned" /\ claims.EnrollmentMethod \in CAMethods /\ AnsweredLast(StatusOK))
    => /\ ret.err = NoErr
       /\ ret.cfg.Cert = ""
       /\ (claims.EnrollmentMethod = "ca" /\ TrimSpace(enFlags.IDName) # <<>>)
            => LastAttempt.body = NameJson(TrimSpace(enFlags.IDName))

\* C10 amended: for the CA-based methods a 200 gives success, and the
\* strategy stores no certificate: the cert field is absent when no
\* certificate file was passed and otherwise the file:// reference made
\* from that file, never a pem: certificate; enrollCAAuto posts, as
\* application/json, exactly the JSON object whose one field name is the
\* trimmed name when the name is not blank, and an empty body otherwise.
C10_CAKeepsCertReference ==
    (pc = "returned" /\ claims.EnrollmentMethod \in CAMethods /\ AnsweredLast(StatusOK))
    => /\ ret.err = NoErr
       /\ enFlags.CertFile = "" => ret.cfg.Cert = ""
       /\ enFlags.CertFile # ""
            => ret.cfg.Cert \in {"file://" \o Abs(enFlags.CertFile), "file://"}
       /\ claims.EnrollmentMethod = "ca"
            => /\ LastAttempt.contentType = "application/json"
               /\ LastAttempt.body =
                    IF TrimSpace(enFlags.IDName) # <<>>
                    THEN NameJson(TrimSpace(enFlags.IDName))
                    ELSE ""

\* C10 witness: enrollCAAuto, with a certificate file and a name padded
\* with a blank, was answered 200
C10_Witness ==
    /\ pc = "returned"
    /\ claims.EnrollmentMethod = "ca"
    /\ AnsweredLast(StatusOK)
    /\ enFlags.CertFile = "cert.pem"
    /\ enFlags.IDName = <<" ", "e">>
    /\ LastAttempt.body = "{\"name\":\"e\"}"
    /\ ret.cfg.Cert = "file:///cwd/cert.pem"


\* the certificates of the operator's override file, and those the
\* CA-bundle fetch of this run brought
Range(seq) == {seq[i] : i \in 1..Len(seq)}
OperatorCerts == IF enFlags.AdditionalCAs = "override.pem" THEN <<OverrideCert>> ELSE <<>>

RECURSIVE FetchedIn(_)
FetchedIn(t) ==
    IF t = <<>>
    THEN <<>>
    ELSE (IF Head(t).op = "fetch" THEN Head(t).certs ELSE <<>>) \o FetchedIn(Tail(t))

\* C11: on success the configuration has a ca field exactly when the trust
\* pool is not empty, and the bundle is the PEM of the certificates of the
\* override file followed by every certificate the fetch brought; with
\* neither, the ca field is absent.
C11_CaBundleIsThePool ==
    (pc = "returned" /\ ret.err = NoErr)
    => LET acc == OperatorCerts \o FetchedIn(trace)
       IN /\ ret.cfg.CA # "" <=> caPool.certs # {}
          /\ caPool.certs = Range(acc)
          /\ ret.cfg.CA = IF acc = <<>> THEN "" ELSE "pem:" \o PemBundle(acc)

\* C11 witness: success with an override certificate and two fetched ones
C11_Witness ==
    /\ pc = "returned"
    /\ ret.err = NoErr
    /\ enFlags.AdditionalCAs = "override.pem"
    /\ Len(FetchedIn(trace)) = 2
    /\ ret.cfg.CA = "pem:[override0][ca1][ca2]"

\* C12: when the override file that was passed cannot be read, Enroll
\* returns an error and goes no further (no strategy is called with a pool
\* that lacks the operator's certificates).
C12_OverrideFailureReported ==
    (~cfg.nil /\ enFlags.AdditionalCAs = "missing.pem")
    => /\ pc = "returned"
       /\ ret.err # NoErr
       /\ trace = <<>>

\* Enroll, called with claims, stopped before it had a configuration: the
\* key could not be prepared
KeyPreparationFailed ==
    /\ pc \in {"returned", "panic"}
    /\ ~tokenRet.claimsNil
    /\ cfg.nil

\* C13: when the key cannot be prepared, Enroll returns an error value and
\* no strategy was called.
C13_KeyFailureReturned ==
    KeyPreparationFailed
    => /\ pc = "returned"
       /\ ret.err # NoErr
       /\ trace = <<>>

UnsupportedMethod == PlainErr("enrollment method is not supported")

\* C14: with a token whose method is none of ott, ottca and ca, Enroll
\* calls no strategy, makes no request and no CA-bundle fetch, never
\* retries, and, once the key is prepared, returns the unsupported-method
\* error.
C14_UnsupportedMethodFails ==
    (tokenStr.wellFormed /\ claims.EnrollmentMethod \notin {"ott", "ottca", "ca"})
    => /\ trace = <<>>
       /\ pc \notin {"fetch", "finish"}
       /\ pc = "classify" => enrollErr = UnsupportedMethod /\ shouldFetchCerts
       /\ (pc = "returned" /\ ~cfg.nil) => ret.err = UnsupportedMethod /\ shouldFetchCerts

\* C14 witness: Enroll returned the unsupported-method error
C14_Witness ==
    /\ pc = "returned"
    /\ claims.EnrollmentMethod = "updb"
    /\ ret.err = UnsupportedMethod
    /\ trace = <<>>

\* the fetch recorded in entry e failed: no response, a body that cannot
\* be read, a status outside 2xx, or a body that is not base64 of PKCS7
FetchFailed(e) ==
    \/ e.status = 0
    \/ ~e.readOk
    \/ ~(e.status >= StatusOK /\ e.status < StatusMultipleChoices)
    \/ e.body # "ok"

C16_RejectionIsAnError ==
    \A i \in 1..Len(trace) :
        (IsAttempt(i) /\ trace[i].status \notin {0, StatusOK}
            /\ (trace[i].method \in CAMethods => trace[i].status # StatusConflict))
        => ~trace[i].panicked /\ trace[i].err # NoErr

Requests == {i \in 1..Len(trace) : IsAttempt(i) /\ trace[i].requested}

\* C18 as stated: what a later strategy call trusts includes everything an
\* earlier one of the same run trusted.
C18_Original ==
    \A i \in Requests : \A j \in Requests :
        i < j => Trusted(trace[i].tls) \subseteq Trusted(trace[j].tls)

\* C18 amended: the pool Enroll accumulates only grows: the pool of a
\* later call includes the pool of every earlier call, the retry's pool is
\* the first call's pool plus what the fetch brought, and the pool holds
\* exactly the accumulated certificates.  What a call trusts grows with it
\* unless the earlier call, its pool being empty, fell back to the system
\* roots: those are no longer trusted once the pool holds a certificate.
C18_PoolOnlyGrows ==
    /\ caPool.certs = Range(allowedCerts)
    /\ \A i \in Requests :
          (pc \notin {"idle", "ValidateToken", "FetchServerCert", "Verify", "parsed"})
          => trace[i].tls.RootCAs.certs \subseteq caPool.certs
    /\ \A i \in Requests : \A j \in Requests :
          i < j
          => /\ trace[i].tls.RootCAs.certs \subseteq trace[j].tls.RootCAs.certs
             /\ trace[j].tls.RootCAs.certs =
                  trace[i].tls.RootCAs.certs \cup Range(FetchedIn(trace))
             /\ (~trace[i].tls.RootCAs.nil \/ trace[j].tls.RootCAs.nil)
                  => Trusted(trace[i].tls) \subseteq Trusted(trace[j].tls)

\* C18 witness: the first call trusted the override certificate, the fetch
\* brought two more, the retry trusted all three
C18_Witness ==
    /\ Len(trace) = 3
    /\ Requests = {1, 3}
    /\ Trusted(trace[1].tls) = {OverrideCert}
    /\ Trusted(trace[3].tls) = {OverrideCert} \cup Range(Bundle(2))

\* C19: once the loop of Enroll has called the strategy, the run ends in
\* success or failure (no strategy call is cut short, and the run is never
\* left abandoned), with at most two strategy calls and at most one
\* CA-bundle fetch.
C19_LoopEndsInResult ==
    /\ Attempts <= 2
    /\ Fetches <= 1
    /\ \A i \in 1..Len(trace) : ~trace[i].panicked
    /\ (trace # <<>>) => pc # "panic"

\* ParseToken has returned to its caller
TokenReturned == pc \notin {"idle", "ValidateToken", "FetchServerCert", "Verify"}

\* C20: a token ParseToken returned without error carries a SignatureCert,
\* so when Enroll on such a token reaches the CA-bundle fetch the anchor it
\* puts in the pool is a certificate; and a token whose leaf-certificate
\* fetch brought no certificate is returned as nil claims with an error.
C20_ValidatedTokenHasSignatureCert ==
    /\ (TokenReturned /\ ~tokenRet.claimsNil)
          => /\ tokenRet.err = NoErr
             /\ claims.SignatureCert # NilCert
    /\ (TokenReturned /\ claims.SignatureCert = NilCert)
          => /\ tokenRet.claimsNil
             /\ tokenRet.err # NoErr
    /\ pc = "fetch" => claims.SignatureCert # NilCert
    /\ \A i \in 1..Len(trace) :
          IsFetch(i) => /\ NilCert \notin trace[i].tls.RootCAs.certs
                        /\ trace[i].tls.RootCAs.certs # {}

\* C20 witness: Enroll on a validated token is about to fetch the CA bundle
\* with the leaf certificate the validation attached
C20_Witness ==
    /\ pc = "fetch"
    /\ ~tokenRet.claimsNil
    /\ claims.SignatureCert = LeafSigner
    /\ leafFetches >= 1
=============================================================================
